---- MODULE Spec2Model ----
(***************************************************************************)
(* Model of terraform-provider-permit: the provider root (API key          *)
(* resolution, client construction), the resource controllers' Create /    *)
(* Read / Update / Delete / ImportState handlers, and the remote           *)
(* permissions service they call through the shared client.                *)
(***************************************************************************)
EXTENDS Integers, Sequences, FiniteSets, TLC

(***************************************************************************)
(* Bounds of the model.                                                    *)
(***************************************************************************)
\* most '/'-separated segments of an import ID that is tried
MaxSegs == 5
\* most remote records the service holds beyond the initial ones
MaxExtra == 1

(***************************************************************************)
(* Framework values: types.String (null / unknown / known), types.Set,     *)
(* Go *string pointers, diagnostics.                                       *)
(***************************************************************************)
TNull == [tag |-> "null", val |-> ""]

TUnknown == [tag |-> "unknown", val |-> ""]

StringValue(s) == [tag |-> "value", val |-> s]

ValueString(t) == IF t.tag = "value" THEN t.val ELSE ""

IsNull(t) == t.tag = "null"

IsUnknown(t) == t.tag = "unknown"

SetNull == [tag |-> "null", elems |-> {}]

SetValueFrom(elems) == [tag |-> "value", elems |-> elems]

PNil == [nil |-> TRUE, val |-> ""]

Ptr(s) == [nil |-> FALSE, val |-> s]

\* (*T).GetDescription(): the zero value when the pointer is nil
GetDescription(p) == IF p.nil THEN "" ELSE p.val

\* a diagnostic that drops the detail it is given
ErrorDiagNoDetail(summary, detail) ==
    [severity |-> "error", summary |-> summary, detail |-> ""]

\* resp.Diagnostics.AddError(summary, detail)
ErrorDiag(summary, detail) ==
    [severity |-> "error", summary |-> summary, detail |-> detail]

HasError(diags) == \E i \in 1..Len(diags) : diags[i].severity = "error"

(***************************************************************************)
(* The controllers and what each is wired to.                              *)
(***************************************************************************)
Controllers ==
    {"project", "project_scaffold", "environment", "tenant", "resource",
     "resource_action", "role"}

\* the client sub-API a controller calls
Api(c) ==
    CASE c = "project" -> "Projects"
      [] c = "project_scaffold" -> "Projects"
      [] c = "environment" -> "Environments"
      [] c = "tenant" -> "Tenants"
      [] c = "resource" -> "Resources"
      [] c = "resource_action" -> "ResourceActions"
      [] c = "role" -> "Roles"

\* the word the controller uses for its entity in diagnostics
Noun(c) ==
    CASE c = "project" -> "project"
      [] c = "project_scaffold" -> "Project"
      [] c = "environment" -> "environment"
      [] c = "tenant" -> "tenant"
      [] c = "resource" -> "resource"
      [] c = "resource_action" -> "resource action"
      [] c = "role" -> "role"

\* the summary of the diagnostic a failed client call is reported with
Summary(c, verb) ==
    IF c = "project_scaffold"
       THEN CASE verb = "create" -> "Unable to Create Project"
              [] verb = "delete" -> "Unable to Delete Project"
              [] OTHER -> ""
       ELSE "Unable to " \o verb \o " " \o Noun(c)

HasProjectId(c) == c \notin {"project", "project_scaffold"}

HasEnvironmentId(c) == c \in {"tenant", "resource", "resource_action", "role"}

HasResourceId(c) == c = "resource_action"

HasPermissions(c) == c = "role"

(***************************************************************************)
(* The local record (the resource model struct), one shape for all kinds:  *)
(* an attribute a kind's schema lacks stays null.                          *)
(***************************************************************************)
NullModel ==
    [id |-> TNull, organization_id |-> TNull, project_id |-> TNull,
     environment_id |-> TNull, resource_id |-> TNull, key |-> TNull,
     name |-> TNull, description |-> TNull, permissions |-> SetNull]

Absent == [present |-> FALSE, ctrl |-> "none", imported |-> FALSE, rec |-> NullModel]

Present(c, rec) == [present |-> TRUE, ctrl |-> c, imported |-> FALSE, rec |-> rec]

(***************************************************************************)
(* The remote permissions service behind the client (an external           *)
(* collaborator): a store of records addressed by key within the scope     *)
(* the client context names.                                               *)
(***************************************************************************)
OrgId == "org-1"

NoRec ==
    [api |-> "", id |-> "", org |-> "", proj |-> "", env |-> "", res |-> "",
     key |-> "", name |-> "", desc |-> PNil, perms |-> {}]

ServerId(api, proj, env, res, key) ==
    CASE api = "Projects" -> "p-" \o key
      [] api = "Environments" -> "e-" \o key \o "@" \o proj
      [] api = "Tenants" -> "t-" \o key \o "@" \o env
      [] api = "Resources" -> "r-" \o key \o "@" \o env
      [] api = "Roles" -> "o-" \o key \o "@" \o env
      [] api = "ResourceActions" -> "a-" \o key \o "@" \o res

RemoteRec(api, proj, env, res, key, name, desc, perms) ==
    [api |-> api, id |-> ServerId(api, proj, env, res, key), org |-> OrgId,
     proj |-> proj, env |-> env, res |-> res, key |-> key, name |-> name,
     desc |-> desc, perms |-> perms]

PA == "p-a"

PB == "p-b"

EA == "e-a@p-a"

EB == "e-a@p-b"

RA == "r-a@e-a@p-a"

\* what the service holds before the provider acts
InitialRemote ==
    {RemoteRec("Projects", "", "", "", "a", "n1", Ptr("d1"), {}),
     RemoteRec("Projects", "", "", "", "b", "n1", PNil, {}),
     RemoteRec("Environments", PA, "", "", "a", "n1", Ptr("d1"), {}),
     RemoteRec("Environments", PB, "", "", "a", "n1", Ptr(""), {}),
     RemoteRec("Resources", PA, EA, "", "a", "n1", Ptr("d1"), {}),
     RemoteRec("Tenants", PA, EA, "", "a", "n1", PNil, {}),
     RemoteRec("Roles", PA, EA, "", "a", "n1", Ptr("d1"), {"x"}),
     RemoteRec("ResourceActions", PA, EA, RA, "a", "n1", Ptr("d1"), {})}

\* the client context: SetContext(ctx, project, environment)
NoContext == [proj |-> "", env |-> ""]

SetContext(proj, env) == [proj |-> proj, env |-> env]

\* the records a call of `api` addresses by `key` under context `cx`
Find(api, cx, res, key, rem) ==
    {r \in rem :
        /\ r.api = api
        /\ r.key = key
        /\ (api = "Projects" \/ r.proj = cx.proj)
        /\ (api \in {"Projects", "Environments"} \/ r.env = cx.env)
        /\ (api # "ResourceActions" \/ r.res = res)}

\* the parent scope of a call exists
ScopeOk(api, cx, res, rem) ==
    CASE api = "Projects" -> TRUE
      [] api = "Environments" ->
            \E p \in rem : p.api = "Projects" /\ p.id = cx.proj
      [] api = "ResourceActions" ->
            \E p \in rem : /\ p.api = "Resources" /\ p.id = res
                           /\ p.proj = cx.proj /\ p.env = cx.env
      [] OTHER ->
            \E p \in rem : /\ p.api = "Environments" /\ p.id = cx.env
                           /\ p.proj = cx.proj

\* a record and everything below it
Subtree(r, rem) ==
    {x \in rem :
        \/ x = r
        \/ (r.api = "Projects" /\ x.proj = r.id)
        \/ (r.api = "Environments" /\ x.env = r.id)
        \/ (r.api = "Resources" /\ x.res = r.id)}

Reply(err, rec, rem) == [err |-> err, rec |-> rec, remote |-> rem]

Field(dto, f, default) == IF f \in DOMAIN dto THEN dto[f] ELSE default

RemoteGet(api, cx, res, key, rem, fail) ==
    LET found == Find(api, cx, res, key, rem) IN
    IF fail THEN Reply("service unavailable", NoRec, rem)
    ELSE IF found = {} THEN Reply("not found", NoRec, rem)
    ELSE Reply("", CHOOSE r \in found : TRUE, rem)

\* blank is what the service keeps for a description the request leaves out
RemoteCreate(api, cx, res, dto, rem, fail, blank) ==
    LET proj == IF api = "Projects" THEN "" ELSE cx.proj
        env  == IF api \in {"Projects", "Environments"} THEN "" ELSE cx.env
        rid  == IF api = "ResourceActions" THEN res ELSE ""
        new  == RemoteRec(api, proj, env, rid, dto.key, dto.name,
                          IF "description" \in DOMAIN dto
                             THEN Ptr(dto.description) ELSE blank,
                          Field(dto, "permissions", {}))
    IN
    IF fail THEN Reply("service unavailable", NoRec, rem)
    ELSE IF ~ScopeOk(api, cx, res, rem) THEN Reply("not found", NoRec, rem)
    ELSE IF Find(api, cx, res, dto.key, rem) # {} THEN Reply("conflict", NoRec, rem)
    ELSE IF Cardinality(rem \ InitialRemote) >= MaxExtra
         THEN Reply("quota exceeded", NoRec, rem)
    ELSE Reply("", new, rem \cup {new})

RemoteUpdate(api, cx, res, key, dto, rem, fail) ==
    LET found == Find(api, cx, res, key, rem)
        old   == CHOOSE r \in found : TRUE
        new   == [old EXCEPT !.name = Field(dto, "name", old.name),
                             !.desc = IF "description" \in DOMAIN dto
                                         THEN Ptr(dto.description) ELSE old.desc]
    IN
    IF fail THEN Reply("service unavailable", NoRec, rem)
    ELSE IF found = {} THEN Reply("not found", NoRec, rem)
    ELSE Reply("", new, (rem \ {old}) \cup {new})

RemoteDelete(api, cx, res, key, rem, fail) ==
    LET found == Find(api, cx, res, key, rem)
        old   == CHOOSE r \in found : TRUE
    IN
    IF fail THEN Reply("service unavailable", NoRec, rem)
    ELSE IF found = {} THEN Reply("not found", NoRec, rem)
    ELSE Reply("", NoRec, rem \ Subtree(old, rem))

(***************************************************************************)
(* What a handler leaves behind: how it ended, its diagnostics, the client *)
(* calls it made in order, the state it saved, the client context and the  *)
(* remote store.                                                           *)
(***************************************************************************)
NoDto == [x \in {} |-> ""]

Call(fn, api, cx, res, key, dto, err) ==
    [fn |-> fn, api |-> api, proj |-> cx.proj, env |-> cx.env, res |-> res,
     key |-> key, dto |-> dto, err |-> err]

CallSetContext(cx) == Call("SetContext", "", cx, "", "", NoDto, "")

Result(outcome, diags, calls, st, cx, rem) ==
    [outcome |-> outcome, diags |-> diags, calls |-> calls, state |-> st,
     ctx |-> cx, remote |-> rem]

\* a nil r.client: the first r.client.Api dereference panics
NilClient(h) == h.nil

SetField(dto, f, v) == [x \in DOMAIN dto \cup {f} |-> IF x = f THEN v ELSE dto[x]]

\* a controller binding the project only, whatever its kind
BindContextProjectOnly(c, projectId, environmentId, cx) ==
    IF HasProjectId(c) THEN SetContext(projectId, "") ELSE cx

\* the context a scoped controller binds before its call; Project calls bind none
BindContext(c, projectId, environmentId, cx) ==
    IF HasProjectId(c)
       THEN SetContext(projectId, IF HasEnvironmentId(c) THEN environmentId ELSE "")
       ELSE cx

BindCalls(c, cx) == IF HasProjectId(c) THEN <<CallSetContext(cx)>> ELSE <<>>

(***************************************************************************)
(* Entity mapping: plan -> create / update request, response -> model.     *)
(***************************************************************************)
CreateRequest(c, plan) ==
    LET base  == [key |-> ValueString(plan.key), name |-> ValueString(plan.name)]
        withA == IF c = "resource" THEN SetField(base, "actions", {}) ELSE base
        d     == ValueString(plan.description)
        withD == IF d # "" THEN SetField(withA, "description", d) ELSE withA
    IN  IF HasPermissions(c)
           THEN SetField(withD, "permissions", plan.permissions.elems)
           ELSE withD

\* an update request that carried the description whatever it is
UpdateRequestAlways(c, plan) ==
    SetField([name |-> ValueString(plan.name)], "description",
             ValueString(plan.description))

\* an update request that carried the planned permissions of a role
UpdateRequestWithPermissions(c, plan) ==
    LET base == [name |-> ValueString(plan.name)]
        d    == ValueString(plan.description)
        withD == IF d # "" THEN SetField(base, "description", d) ELSE base
    IN  IF HasPermissions(c)
           THEN SetField(withD, "permissions", plan.permissions.elems)
           ELSE withD

UpdateRequest(c, plan) ==
    LET base == [name |-> ValueString(plan.name)]
        d    == ValueString(plan.description)
    IN  IF d # "" THEN SetField(base, "description", d) ELSE base

\* Create overwrites the plan's fields with the response's
FromCreateResponse(c, plan, r) ==
    [plan EXCEPT
        !.id = StringValue(r.id),
        !.organization_id = StringValue(r.org),
        !.project_id = IF HasProjectId(c) THEN StringValue(r.proj) ELSE @,
        !.environment_id = IF HasEnvironmentId(c) THEN StringValue(r.env) ELSE @,
        !.resource_id = IF HasResourceId(c) THEN StringValue(r.res) ELSE @,
        !.key = StringValue(r.key),
        !.name = StringValue(r.name),
        !.description = StringValue(r.desc.val),
        !.permissions = IF HasPermissions(c) THEN SetValueFrom(r.perms) ELSE @]

\* Read and Update build a fresh model from the response; the role model's
\* Permissions is not among the fields set and keeps its zero value
FromResponse(c, r) ==
    [NullModel EXCEPT
        !.id = StringValue(r.id),
        !.organization_id = StringValue(r.org),
        !.project_id = IF HasProjectId(c) THEN StringValue(r.proj) ELSE @,
        !.environment_id = IF HasEnvironmentId(c) THEN StringValue(r.env) ELSE @,
        !.resource_id = IF HasResourceId(c) THEN StringValue(r.res) ELSE @,
        !.key = StringValue(r.key),
        !.name = StringValue(r.name),
        !.description = StringValue(IF c = "tenant" THEN GetDescription(r.desc)
                                                    ELSE r.desc.val)]

\* *x.Description on a nil pointer: Create of every controller, Read and
\* Update of every controller but tenant (which calls GetDescription)
DerefPanics(c, op, r) == r.desc.nil /\ (op = "Create" \/ c # "tenant")

\* a handler treating not-found as gone: resp.State.RemoveResource, no
\* diagnostic
FailedRemovesMissing(c, verb, rep, calls, st, cx) ==
    IF rep.err = "not found"
       THEN Result("ok", <<>>, calls, Absent, cx, rep.remote)
       ELSE Result("error", <<ErrorDiag(Summary(c, verb), rep.err)>>, calls, st,
                   cx, rep.remote)

\* a handler dropping the state it was given when its client call fails
FailedDropsState(c, verb, rep, calls, st, cx) ==
    Result("error", <<ErrorDiag(Summary(c, verb), rep.err)>>, calls, Absent, cx,
           rep.remote)

\* if err != nil { resp.Diagnostics.AddError(summary, err.Error()); return }
\* a handler that made its failed call a second time
FailedRetries(c, verb, rep, calls, st, cx) ==
    Result("error", <<ErrorDiag(Summary(c, verb), rep.err)>>,
           Append(calls, calls[Len(calls)]), st, cx, rep.remote)

Failed(c, verb, rep, calls, st, cx) ==
    Result("error", <<ErrorDiag(Summary(c, verb), rep.err)>>, calls, st, cx,
           rep.remote)

(***************************************************************************)
(* The lifecycle handlers.  h is the controller's client handle, st the    *)
(* stored state, cx the client context, rem the remote store; fault is the *)
(* index of the remote call that fails in transit (0: none), blank what    *)
(* the service keeps for a description the request leaves out.             *)
(***************************************************************************)
Create(c, h, plan, st, cx, rem, fault, blank) ==
    LET projectId     == ValueString(plan.project_id)
        environmentId == ValueString(plan.environment_id)
        resourceId    == ValueString(plan.resource_id)
        dto   == CreateRequest(c, plan)
        cx1   == BindContext(c, projectId, environmentId, cx)
        rep   == RemoteCreate(Api(c), cx1, resourceId, dto, rem, fault = 1, blank)
        calls == Append(BindCalls(c, cx1),
                        Call("Create", Api(c), cx1, resourceId, dto.key, dto, rep.err))
    IN
    IF NilClient(h) THEN Result("panic", <<>>, <<>>, st, cx, rem)
    ELSE IF rep.err # ""
         THEN Failed(c, "create", rep, calls, st, cx1)
    ELSE IF DerefPanics(c, "Create", rep.rec)
         THEN Result("panic", <<>>, calls, st, cx1, rep.remote)
    ELSE Result("ok", <<>>, calls,
                Present(c, FromCreateResponse(c, plan, rep.rec)), cx1, rep.remote)

Read(c, h, st, cx, rem, fault) ==
    LET state         == st.rec
        projectId     == ValueString(state.project_id)
        environmentId == ValueString(state.environment_id)
        resourceId    == ValueString(state.resource_id)
        key   == ValueString(state.key)
        cx1   == BindContext(c, projectId, environmentId, cx)
        rep   == RemoteGet(Api(c), cx1, resourceId, key, rem, fault = 1)
        calls == Append(BindCalls(c, cx1),
                        Call("Get", Api(c), cx1, resourceId, key, NoDto, rep.err))
    IN
    IF c = "project_scaffold"
       THEN Result("ok", <<>>, <<>>, Present(c, state), cx, rem)
    ELSE IF NilClient(h) THEN Result("panic", <<>>, <<>>, st, cx, rem)
    ELSE IF rep.err # ""
         THEN Failed(c, "read", rep, calls, st, cx1)
    ELSE IF DerefPanics(c, "Read", rep.rec)
         THEN Result("panic", <<>>, calls, st, cx1, rep.remote)
    ELSE Result("ok", <<>>, calls, Present(c, FromResponse(c, rep.rec)), cx1,
                rep.remote)

Update(c, h, plan, st, cx, rem, fault) ==
    LET projectId     == ValueString(plan.project_id)
        environmentId == ValueString(plan.environment_id)
        resourceId    == ValueString(plan.resource_id)
        key   == ValueString(plan.key)
        dto   == UpdateRequest(c, plan)
        cx1   == BindContext(c, projectId, environmentId, cx)
        rep   == RemoteUpdate(Api(c), cx1, resourceId, key, dto, rem, fault = 1)
        calls == Append(BindCalls(c, cx1),
                        Call("Update", Api(c), cx1, resourceId, key, dto, rep.err))
    IN
    IF c = "project_scaffold"
       THEN Result("ok", <<>>, <<>>, Present(c, plan), cx, rem)
    ELSE IF NilClient(h) THEN Result("panic", <<>>, <<>>, st, cx, rem)
    ELSE IF rep.err # ""
         THEN Failed(c, "update", rep, calls, st, cx1)
    ELSE IF DerefPanics(c, "Update", rep.rec)
         THEN Result("panic", <<>>, calls, st, cx1, rep.remote)
    ELSE Result("ok", <<>>, calls, Present(c, FromResponse(c, rep.rec)), cx1,
                rep.remote)

\* the framework removes the state when Delete returns without an error
\* a Delete that addressed the entity by its server id
DeleteById(c, h, st, cx, rem, fault) ==
    LET state == st.rec
        cx1   == BindContext(c, ValueString(state.project_id),
                             ValueString(state.environment_id), cx)
        rep   == RemoteDelete(Api(c), cx1, ValueString(state.resource_id),
                              ValueString(state.id), rem, fault = 1)
        calls == Append(BindCalls(c, cx1),
                        Call("Delete", Api(c), cx1, ValueString(state.resource_id),
                             ValueString(state.id), NoDto, rep.err))
    IN
    IF NilClient(h) THEN Result("panic", <<>>, <<>>, st, cx, rem)
    ELSE IF rep.err # ""
         THEN Result("error", <<ErrorDiag(Summary(c, "delete"), rep.err)>>,
                     calls, st, cx1, rep.remote)
    ELSE Result("ok", <<>>, calls, Absent, cx1, rep.remote)

Delete(c, h, st, cx, rem, fault) ==
    LET state         == st.rec
        projectId     == ValueString(state.project_id)
        environmentId == ValueString(state.environment_id)
        resourceId    == ValueString(state.resource_id)
        key   == ValueString(state.key)
        cx1   == BindContext(c, projectId, environmentId, cx)
        rep   == RemoteDelete(Api(c), cx1, resourceId, key, rem, fault = 1)
        calls == Append(BindCalls(c, cx1),
                        Call("Delete", Api(c), cx1, resourceId, key, NoDto, rep.err))
    IN
    IF NilClient(h) THEN Result("panic", <<>>, <<>>, st, cx, rem)
    ELSE IF rep.err # ""
         THEN Failed(c, "delete", rep, calls, st, cx1)
    ELSE Result("ok", <<>>, calls, Absent, cx1, rep.remote)

(***************************************************************************)
(* Import: the composite ID is a string, modelled as its sequence of       *)
(* characters; strings.Split cuts it at every separator.                   *)
(***************************************************************************)
RECURSIVE Split(_, _)
Split(s, sep) ==
    IF \A i \in 1..Len(s) : s[i] # sep
       THEN <<s>>
       ELSE LET i == CHOOSE k \in 1..Len(s) :
                        s[k] = sep /\ \A j \in 1..(k - 1) : s[j] # sep
            IN  <<SubSeq(s, 1, i - 1)>> \o Split(SubSeq(s, i + 1, Len(s)), sep)

\* the string a sequence of characters spells
RECURSIVE Str(_)
Str(s) == IF s = <<>> THEN "" ELSE Head(s) \o Str(Tail(s))

\* every composite kind insisting on three segments
ImportSegmentsAllThree(c) == IF HasProjectId(c) THEN 3 ELSE 0

\* len(split) the controller's ImportState insists on (project: no split)
ImportSegments(c) ==
    CASE c = "environment" -> 2
      [] c \in {"tenant", "resource", "role"} -> 3
      [] c = "resource_action" -> 4
      [] OTHER -> 0

ImportFormat(c) ==
    CASE c = "environment" -> "{projectId}/{environmentKey}"
      [] c = "tenant" -> "{project-key}/{environment-key}/{tenant-key}"
      [] c = "resource" -> "{project-key}/{environment-key}/{resource-key}"
      [] c = "role" -> "{project-key}/{environment-key}/{role-key}"
      [] c = "resource_action" ->
            "{project-key}/{environment-key}/{resource-key}/{resource-action-key}"
      [] OTHER -> ""

\* the attribute ImportStatePassthroughID writes the ID to
PassthroughPath(c) == IF c = "project_scaffold" THEN "id" ELSE "key"

Imported(c, rec) == [present |-> TRUE, ctrl |-> c, imported |-> TRUE, rec |-> rec]

\* an import reporting a failed lookup without the client's message
ImportAbortedQuietly(what, rep, calls, st, cx, rem) ==
    Result("error", <<ErrorDiag("Unable to read " \o what, "")>>, calls, st, cx, rem)

\* if err != nil { resp.Diagnostics.AddError("Unable to read ...", err.Error()); return }
ImportAborted(what, rep, calls, st, cx, rem) ==
    Result("error", <<ErrorDiag("Unable to read " \o what, rep.err)>>, calls, st,
           cx, rem)

\* an import writing the parents' keys where their ids belong
ImportAttributesByKey(c, project, environment, resource, leafKey) ==
    [NullModel EXCEPT
        !.project_id = StringValue(project.key),
        !.environment_id =
            IF HasEnvironmentId(c) THEN StringValue(environment.key) ELSE @,
        !.resource_id = IF HasResourceId(c) THEN StringValue(resource.key) ELSE @,
        !.key = StringValue(leafKey)]

\* the resp.State.SetAttribute calls that end a successful import
ImportAttributes(c, project, environment, resource, leafKey) ==
    [NullModel EXCEPT
        !.project_id = StringValue(project.id),
        !.environment_id =
            IF HasEnvironmentId(c) THEN StringValue(environment.id) ELSE @,
        !.resource_id = IF HasResourceId(c) THEN StringValue(resource.id) ELSE @,
        !.key = StringValue(leafKey)]

\* a format check that also turned down empty segments
ImportMalformedOnEmpty(c, split) ==
    \/ Len(split) # ImportSegments(c)
    \/ \E i \in 1..Len(split) : split[i] = <<>>

\* the format check of an import ID: the number of segments
ImportMalformed(c, split) == Len(split) # ImportSegments(c)

ImportState(c, h, id, st, cx, rem, fault) ==
    LET split == Split(id, "/")
        projectKey     == Str(split[1])
        environmentKey == Str(split[2])
        leafKey        == Str(split[Len(split)])
        resourceKey    == Str(split[3])
        rep1  == RemoteGet("Projects", cx, "", projectKey, rem, fault = 1)
        call1 == Call("Get", "Projects", cx, "", projectKey, NoDto, rep1.err)
        cx1   == SetContext(rep1.rec.id, "")
        rep2  == RemoteGet("Environments", cx1, "", environmentKey, rem, fault = 2)
        call2 == Call("Get", "Environments", cx1, "", environmentKey, NoDto, rep2.err)
        cx2   == SetContext(rep1.rec.id, rep2.rec.id)
        rep3  == RemoteGet("Resources", cx2, "", resourceKey, rem, fault = 3)
        call3 == Call("Get", "Resources", cx2, "", resourceKey, NoDto, rep3.err)
        calls2 == <<call1, CallSetContext(cx1), call2>>
        calls3 == calls2 \o <<CallSetContext(cx2), call3>>
    IN
    IF c \in {"project", "project_scaffold"}
       THEN Result("ok", <<>>, <<>>,
                   Imported(c, [NullModel EXCEPT
                                   ![PassthroughPath(c)] = StringValue(Str(id))]),
                   cx, rem)
    ELSE IF ImportMalformed(c, split)
         THEN Result("error",
                     <<ErrorDiag("Error importing " \o Noun(c),
                                 "Could not import " \o Noun(c)
                                    \o ", ID should be an " \o ImportFormat(c))>>,
                     <<>>, st, cx, rem)
    ELSE IF NilClient(h) THEN Result("panic", <<>>, <<>>, st, cx, rem)
    ELSE IF rep1.err # ""
         THEN ImportAborted("project", rep1, <<call1>>, st, cx, rem)
    ELSE IF c = "environment"
         THEN Result("ok", <<>>, <<call1>>,
                     Imported(c, ImportAttributes(c, rep1.rec, NoRec, NoRec, leafKey)),
                     cx, rem)
    ELSE IF rep2.err # ""
         THEN ImportAborted("environment", rep2, calls2, st, cx1, rem)
    ELSE IF c # "resource_action"
         THEN Result("ok", <<>>, calls2,
                     Imported(c, ImportAttributes(c, rep1.rec, rep2.rec, NoRec,
                                                  leafKey)),
                     cx1, rem)
    ELSE IF rep3.err # ""
         THEN ImportAborted("resource", rep3, calls3, st, cx2, rem)
    ELSE Result("ok", <<>>, calls3,
                Imported(c, ImportAttributes(c, rep1.rec, rep2.rec, rep3.rec, leafKey)),
                cx2, rem)

(***************************************************************************)
(* The provider root and the controllers' Configure.                       *)
(***************************************************************************)
NoClient == [nil |-> TRUE, apiKey |-> ""]

\* permit.New(config.NewConfigBuilder(apiKey).Build())
NewClient(apiKey) == [nil |-> FALSE, apiKey |-> apiKey]

\* provider data as the framework hands it on: nil, or a value of some type
NilData == [type |-> "nil", client |-> NoClient]

ClientData(h) == [type |-> "*permit.Client", client |-> h]

Unconfigured ==
    [configured |-> FALSE, config |-> TNull, env |-> "", diags |-> <<>>,
     client |-> NoClient, ResourceData |-> NilData, DataSourceData |-> NilData]

\* a provider building a client from whatever key it resolved, even none
ProviderConfigureAnyKey(config, env) ==
    LET apiKey == IF ~IsNull(config) THEN ValueString(config) ELSE env
        client == NewClient(apiKey)
    IN
    IF IsUnknown(config)
       THEN [configured |-> TRUE, config |-> config, env |-> env,
             diags |-> <<ErrorDiag("Unknown API Key", "api_key")>>,
             client |-> NoClient, ResourceData |-> NilData,
             DataSourceData |-> NilData]
       ELSE [configured |-> TRUE, config |-> config, env |-> env,
             diags |-> IF apiKey = ""
                          THEN <<ErrorDiag("Missing API Key", "api_key")>>
                          ELSE <<>>,
             client |-> client, ResourceData |-> ClientData(client),
             DataSourceData |-> ClientData(client)]

\* a provider letting a non-empty environment variable win over the
\* configuration
ProviderConfigureEnvFirst(config, env) ==
    LET apiKey == IF env # "" THEN env ELSE ValueString(config)
        failed(summary) ==
            [configured |-> TRUE, config |-> config, env |-> env,
             diags |-> <<ErrorDiag(summary, "api_key")>>, client |-> NoClient,
             ResourceData |-> NilData, DataSourceData |-> NilData]
        client == NewClient(apiKey)
    IN
    IF IsUnknown(config) THEN failed("Unknown API Key")
    ELSE IF apiKey = "" THEN failed("Missing API Key")
    ELSE [configured |-> TRUE, config |-> config, env |-> env, diags |-> <<>>,
          client |-> client, ResourceData |-> ClientData(client),
          DataSourceData |-> ClientData(client)]

\* a provider falling back to the environment when the configured value is
\* not known yet
ProviderConfigureUnknownAsNull(config, env) ==
    LET apiKey == IF config.tag = "value" THEN ValueString(config) ELSE env
        client == NewClient(apiKey)
    IN
    IF apiKey = ""
       THEN [configured |-> TRUE, config |-> config, env |-> env,
             diags |-> <<ErrorDiag("Missing API Key", "api_key")>>,
             client |-> NoClient, ResourceData |-> NilData,
             DataSourceData |-> NilData]
       ELSE [configured |-> TRUE, config |-> config, env |-> env, diags |-> <<>>,
             client |-> client, ResourceData |-> ClientData(client),
             DataSourceData |-> ClientData(client)]

\* permitProvider.Configure: config is the api_key attribute, env the value
\* of PERMIT_API_KEY
\* a Configure that handed its client to the resources only
ProviderConfigureResourcesOnly(config, env) ==
    LET apiKey == IF ~IsNull(config) THEN ValueString(config) ELSE env
        failed(summary) ==
            [configured |-> TRUE, config |-> config, env |-> env,
             diags |-> <<ErrorDiag(summary, "api_key")>>, client |-> NoClient,
             ResourceData |-> NilData, DataSourceData |-> NilData]
        client == NewClient(apiKey)
    IN
    IF IsUnknown(config) THEN failed("Unknown API Key")
    ELSE IF apiKey = "" THEN failed("Missing API Key")
    ELSE [configured |-> TRUE, config |-> config, env |-> env, diags |-> <<>>,
          client |-> client, ResourceData |-> ClientData(client),
          DataSourceData |-> NilData]

\* a Configure that fell back to the environment for an empty api_key
ProviderConfigureEmptyAsNull(config, env) ==
    LET apiKey == IF ~IsNull(config) /\ ValueString(config) # ""
                     THEN ValueString(config) ELSE env
        failed(summary) ==
            [configured |-> TRUE, config |-> config, env |-> env,
             diags |-> <<ErrorDiag(summary, "api_key")>>, client |-> NoClient,
             ResourceData |-> NilData, DataSourceData |-> NilData]
        client == NewClient(apiKey)
    IN
    IF IsUnknown(config) THEN failed("Unknown API Key")
    ELSE IF apiKey = "" THEN failed("Missing API Key")
    ELSE [configured |-> TRUE, config |-> config, env |-> env, diags |-> <<>>,
          client |-> client, ResourceData |-> ClientData(client),
          DataSourceData |-> ClientData(client)]

ProviderConfigure(config, env) ==
    LET apiKey == IF ~IsNull(config) THEN ValueString(config) ELSE env
        failed(summary) ==
            [configured |-> TRUE, config |-> config, env |-> env,
             diags |-> <<ErrorDiag(summary, "api_key")>>, client |-> NoClient,
             ResourceData |-> NilData, DataSourceData |-> NilData]
        client == NewClient(apiKey)
    IN
    IF IsUnknown(config) THEN failed("Unknown API Key")
    ELSE IF apiKey = "" THEN failed("Missing API Key")
    ELSE [configured |-> TRUE, config |-> config, env |-> env, diags |-> <<>>,
          client |-> client, ResourceData |-> ClientData(client),
          DataSourceData |-> ClientData(client)]

\* provider data of a type other than the client's
WrongData == [type |-> "string", client |-> NoClient]

\* (r *xResource).Configure: the controller's client after the call
ResourceConfigure(h, providerData) ==
    IF providerData.type = "nil" THEN h
    ELSE IF providerData.type # "*permit.Client" THEN h
    ELSE providerData.client

DataSources == {"project", "environment"}

\* a data source: its client handle and the diagnostics of its Configure
NoDataSource == [client |-> NoClient, diags |-> <<>>]

\* (d *xDataSource).Configure: the data source after the call
DataSourceConfigure(d, providerData) ==
    IF providerData.type = "nil" THEN [d EXCEPT !.diags = <<>>]
    ELSE IF providerData.type # "*permit.Client"
    THEN [d EXCEPT !.diags = <<ErrorDiag("Unexpected Data Source Configure Type",
                                         providerData.type)>>]
    ELSE [client |-> providerData.client, diags |-> <<>>]

\* the summary a data source reports a failed Get with
DataSummary(d) == "Unable to read " \o d

\* (d *xDataSource).Read: config is the data source's configuration; the
\* state of the result is the data record handed to the host
DataSourceRead(d, h, config, cx, rem, fault) ==
    LET projectId == ValueString(config.project_id)
        key   == ValueString(config.key)
        api   == IF d = "project" THEN "Projects" ELSE "Environments"
        cx1   == IF d = "environment" THEN SetContext(projectId, "") ELSE cx
        rep   == RemoteGet(api, cx1, "", key, rem, fault = 1)
        calls == Append(IF d = "environment" THEN <<CallSetContext(cx1)>> ELSE <<>>,
                        Call("Get", api, cx1, "", key, NoDto, rep.err))
        r     == rep.rec
    IN
    IF NilClient(h) THEN Result("panic", <<>>, <<>>, Absent, cx, rem)
    ELSE IF rep.err # ""
         THEN Result("error", <<ErrorDiag(DataSummary(d), rep.err)>>, calls,
                     Absent, cx1, rep.remote)
    ELSE IF r.desc.nil THEN Result("panic", <<>>, calls, Absent, cx1, rep.remote)
    ELSE Result("ok", <<>>, calls,
                Present(d, [NullModel EXCEPT
                               !.id = StringValue(r.id),
                               !.organization_id = StringValue(r.org),
                               !.project_id = IF d = "environment"
                                                 THEN StringValue(r.proj) ELSE @,
                               !.key = StringValue(r.key),
                               !.name = StringValue(r.name),
                               !.description = StringValue(r.desc.val)]),
                cx1, rep.remote)

(***************************************************************************)
(* State.                                                                  *)
(***************************************************************************)
VARIABLES
    provider,   \* the provider root: its inputs, diagnostics and client
    rclient,    \* each resource controller's client handle
    dclient,    \* each data source's client handle and Configure diagnostics
    tf,         \* the stored state of the managed instance
    ctx,        \* the shared client's context
    remote,     \* the records the remote service holds
    last,       \* the most recent handler run: inputs, prior state, result
    ops         \* handler runs in flight at once on the shared client

vars == <<provider, rclient, dclient, tf, ctx, remote, last, ops>>

\* the handler runs that may be in flight at once
Runs == {1, 2}

\* no run in flight, no field of the client context written by a run
NoRuns ==
    [run |-> [o \in Runs |->
                 [pc |-> "idle", ctrl |-> "none", pair |-> NoContext,
                  under |-> NoContext, saw |-> [proj |-> 0, env |-> 0],
                  err |-> ""]],
     writer |-> [proj |-> 0, env |-> 0]]

NoOp ==
    [op |-> "none", ctrl |-> "none", outcome |-> "none", diags |-> <<>>,
     calls |-> <<>>, plan |-> NullModel, prev |-> Absent, id |-> <<>>,
     before |-> {}, after |-> <<>>, data |-> Absent]

\* no response is pending: the host has taken the last one
Settled == last.op = "none"

\* the handler run that the pending one followed, if any
Earlier == IF last.after = <<>> THEN NoOp ELSE last.after[1]

Ran(op, c, plan, id, st, res) ==
    [op |-> op, ctrl |-> c, outcome |-> res.outcome, diags |-> res.diags,
     calls |-> res.calls, plan |-> plan, prev |-> st, id |-> id,
     before |-> remote,
     after |-> IF Settled THEN <<>> ELSE <<[last EXCEPT !.after = <<>>]>>,
     data |-> Absent]

\* a handler's result becomes the state; an instance that entered the
\* state by import stays marked so through its refreshes
Commit(op, c, plan, id, st, res) ==
    /\ tf' = IF op = "Read" /\ res.state.present
                THEN [res.state EXCEPT !.imported = st.imported]
                ELSE res.state
    /\ ctx' = res.ctx
    /\ remote' = res.remote
    /\ last' = Ran(op, c, plan, id, st, res)
    /\ UNCHANGED <<ops, provider, rclient, dclient>>

(***************************************************************************)
(* What the host may ask for.                                              *)
(***************************************************************************)
PlanScopes ==
    {[proj |-> PA, env |-> EA, res |-> RA],
     [proj |-> PB, env |-> EB, res |-> RA],
     [proj |-> PB, env |-> EA, res |-> RA]}

PlanKeys == {"a", "c"}

\* the keys a changed configuration may name where key is updatable in place
UpdateKeys == {"c", "d"}

PlanNames == {"n1"}

\* the names a changed configuration may carry
UpdateNames == PlanNames \cup {"n2"}

PlanDescriptions == {TNull, StringValue(""), StringValue("d1")}

\* the descriptions a changed configuration may carry
UpdateDescriptions == PlanDescriptions \cup {StringValue("d2")}

PlanPermissions(c) == IF HasPermissions(c) THEN {{"x"}, {"x", "y"}} ELSE {{}}

\* what the service may keep for a description a create request leaves out
Blanks == {PNil, Ptr("")}

\* key and the foreign keys carry stringplanmodifier.RequiresReplace()
RequiresReplace(c, attr) ==
    /\ attr \in {"key", "project_id", "environment_id", "resource_id"}
    /\ c # "project_scaffold"

\* id and organization_id carry stringplanmodifier.UseStateForUnknown()
UseStateForUnknown(c, attr) ==
    \/ attr = "id"
    \/ attr = "organization_id" /\ c # "project_scaffold"

\* the plan of a new instance: computed attributes unknown
CreatePlan(c, scope, key, name, desc, perms) ==
    [NullModel EXCEPT
        !.id = TUnknown,
        !.organization_id = TUnknown,
        !.project_id = IF HasProjectId(c) THEN StringValue(scope.proj) ELSE @,
        !.environment_id = IF HasEnvironmentId(c) THEN StringValue(scope.env) ELSE @,
        !.resource_id = IF HasResourceId(c) THEN StringValue(scope.res) ELSE @,
        !.key = StringValue(key),
        !.name = StringValue(name),
        !.description = desc,
        !.permissions = IF HasPermissions(c) THEN SetValueFrom(perms) ELSE @]

\* the plan of an in-place change: an attribute that requires replacement
\* keeps the state's value, a computed one its state value or unknown
UpdatePlan(c, state, key, name, desc, perms) ==
    [state EXCEPT
        !.organization_id =
            IF UseStateForUnknown(c, "organization_id") THEN @ ELSE TUnknown,
        !.key = IF RequiresReplace(c, "key") THEN @ ELSE StringValue(key),
        !.name = StringValue(name),
        !.description = desc,
        !.permissions = IF HasPermissions(c) THEN SetValueFrom(perms) ELSE @]

SegmentKeys == {<<>>, <<"a">>, <<"b">>}

RECURSIVE Join(_, _)
Join(segs, sep) ==
    IF Len(segs) = 1 THEN segs[1]
    ELSE segs[1] \o <<sep>> \o Join(Tail(segs), sep)

SeqsOfLen(S, n) == [1..n -> S]

\* the import IDs tried: up to MaxSegs segments, each a key or empty
ImportIds ==
    {Join(segs, "/") : segs \in UNION {SeqsOfLen(SegmentKeys, n) : n \in 1..MaxSegs}}

(***************************************************************************)
(* Actions: one per handler.  The host starts Create, Update, Delete and   *)
(* ImportState once it has taken the previous response; a Read (refresh)   *)
(* may follow a response directly.                                         *)
(***************************************************************************)
Configured == ProviderConfigure(TNull, "k1")

Init ==
    /\ provider = Configured
    /\ rclient = [c \in Controllers |->
                     ResourceConfigure(NoClient, Configured.ResourceData)]
    /\ dclient = [d \in DataSources |->
                     DataSourceConfigure(NoDataSource, Configured.DataSourceData)]
    /\ tf = Absent
    /\ ctx = NoContext
    /\ remote = InitialRemote
    /\ last = NoOp
    /\ ops = NoRuns

CreateAction ==
    /\ Settled /\ ~tf.present
    /\ \E c \in Controllers, scope \in PlanScopes, key \in PlanKeys,
          name \in PlanNames, desc \in PlanDescriptions, fault \in 0..1 :
         \E perms \in PlanPermissions(c), blank \in Blanks :
            LET plan == CreatePlan(c, scope, key, name, desc, perms) IN
            Commit("Create", c, plan, <<>>, tf,
                   Create(c, rclient[c], plan, tf, ctx, remote, fault, blank))

\* the states a Read may be issued for: the stored one, or the one a Delete
\* has just removed (a refresh from a stale copy of the state)
Readable ==
    (IF tf.present THEN {tf} ELSE {})
        \cup (IF last.op = "Delete" /\ last.outcome = "ok" THEN {last.prev} ELSE {})

ReadAction ==
    /\ last.after = <<>>
    /\ \E st \in Readable, fault \in 0..1 :
         Commit("Read", st.ctrl, NullModel, <<>>, st,
                Read(st.ctrl, rclient[st.ctrl], st, ctx, remote, fault))

UpdateAction ==
    /\ Settled /\ tf.present /\ ~tf.imported
    /\ \E key \in UpdateKeys, name \in UpdateNames, desc \in UpdateDescriptions,
          fault \in 0..1 :
         \E perms \in PlanPermissions(tf.ctrl) :
            LET plan == UpdatePlan(tf.ctrl, tf.rec, key, name, desc, perms) IN
            Commit("Update", tf.ctrl, plan, <<>>, tf,
                   Update(tf.ctrl, rclient[tf.ctrl], plan, tf, ctx, remote, fault))

DeleteAction ==
    /\ Settled /\ tf.present /\ ~tf.imported
    /\ \E fault \in 0..1 :
         Commit("Delete", tf.ctrl, NullModel, <<>>, tf,
                Delete(tf.ctrl, rclient[tf.ctrl], tf, ctx, remote, fault))

\* the remote calls an import makes at most
ImportCalls(c) == IF ImportSegments(c) = 0 THEN 0 ELSE ImportSegments(c) - 1

\* an import of one of the IDs ids
ImportOf(ids) ==
    /\ Settled /\ ~tf.present
    /\ \E c \in Controllers, id \in ids :
         \E fault \in 0..ImportCalls(c) :
            Commit("Import", c, NullModel, id, tf,
                   ImportState(c, rclient[c], id, tf, ctx, remote, fault))

ImportAction == ImportOf(ImportIds)

\* the host drops an object from its state without calling the provider
Forget ==
    /\ Settled /\ tf.present
    /\ tf' = Absent
    /\ UNCHANGED <<ops, provider, rclient, dclient, ctx, remote, last>>

\* the host takes the pending response; the request and response are gone
Respond ==
    /\ ~Settled
    /\ last' = NoOp
    /\ UNCHANGED <<ops, provider, rclient, dclient, tf, ctx, remote>>

\* instances the provider creates and then manages
Next ==
    \/ CreateAction
    \/ ReadAction
    \/ UpdateAction
    \/ DeleteAction
    \/ Respond

Spec == Init /\ [][Next]_vars

\* instances adopted by import and then refreshed
NextImport ==
    \/ ImportAction
    \/ ReadAction
    \/ Forget
    \/ Respond

SpecImport == Init /\ [][NextImport]_vars

\* the configurations a data source may be read with
DataConfigs(d) ==
    {[NullModel EXCEPT !.key = StringValue(k),
                       !.project_id = IF d = "environment" THEN StringValue(p)
                                                           ELSE @] :
        k \in {"a", "b", "c"}, p \in {PA, PB}}

\* data sources are read while no resource instance is stored
DataReadAction ==
    /\ Settled /\ ~tf.present
    /\ \E d \in DataSources, fault \in 0..1 :
         \E config \in DataConfigs(d) :
            LET res == DataSourceRead(d, dclient[d].client, config, ctx, remote,
                                      fault)
            IN  /\ ctx' = res.ctx
                /\ remote' = res.remote
                /\ last' = [Ran("DataRead", d, config, <<>>, tf, res)
                               EXCEPT !.data = res.state]
                /\ UNCHANGED <<ops, provider, rclient, dclient, tf>>

\* the IDs of two to four segments, each the key "a" or "b"
ScopedIds ==
    {Join(segs, "/") :
        segs \in UNION {SeqsOfLen({<<"a">>, <<"b">>}, n) : n \in 2..4}}

\* the host imports only into a workspace that has created nothing yet
AdoptAction == remote = InitialRemote /\ ImportOf(ScopedIds)

\* the host drops an instance it had imported
ForgetAdopted == tf.imported /\ Forget

\* every handler of the resources and data sources
NextCalls ==
    \/ CreateAction
    \/ ReadAction
    \/ UpdateAction
    \/ DeleteAction
    \/ AdoptAction
    \/ ForgetAdopted
    \/ DataReadAction
    \/ Respond

SpecCalls == Init /\ [][NextCalls]_vars

\* what the configuration and the environment may hold for the API key
ConfigValues ==
    {TNull, TUnknown, StringValue(""), StringValue("k1"), StringValue("k2")}

EnvValues == {"", "k1", "k2"}

InitCfg ==
    /\ provider = Unconfigured
    /\ rclient = [c \in Controllers |-> NoClient]
    /\ dclient = [d \in DataSources |-> NoDataSource]
    /\ tf = Absent
    /\ ctx = NoContext
    /\ remote = InitialRemote
    /\ last = NoOp
    /\ ops = NoRuns

\* the host configures the provider, once
ProviderConfigureAction ==
    /\ ~provider.configured
    /\ \E config \in ConfigValues, env \in EnvValues :
         provider' = ProviderConfigure(config, env)
    /\ UNCHANGED <<ops, rclient, dclient, tf, ctx, remote, last>>

\* the host hands the provider's data, or something else, to a controller
ResourceConfigureAction ==
    /\ provider.configured
    /\ \E c \in Controllers, data \in {provider.ResourceData, WrongData} :
         rclient' = [rclient EXCEPT ![c] = ResourceConfigure(rclient[c], data)]
    /\ UNCHANGED <<ops, provider, dclient, tf, ctx, remote, last>>

DataSourceConfigureAction ==
    /\ provider.configured
    /\ \E d \in DataSources, data \in {provider.DataSourceData, WrongData} :
         dclient' = [dclient EXCEPT ![d] = DataSourceConfigure(dclient[d], data)]
    /\ UNCHANGED <<ops, provider, rclient, tf, ctx, remote, last>>

NextCfg ==
    \/ ProviderConfigureAction
    \/ ResourceConfigureAction
    \/ DataSourceConfigureAction

SpecCfg == InitCfg /\ [][NextCfg]_vars

(***************************************************************************)
(* Handler runs in flight at once.  The controllers share one client       *)
(* handle and nothing in the handlers synchronises its use: SetContext     *)
(* writes the handle's project and environment, the call that follows      *)
(* reads them, and the steps of two runs interleave freely.                *)
(***************************************************************************)
\* the scopes two runs work under
RunPairs == {SetContext(PA, EA), SetContext(PB, EB)}

\* a call that carried its run's own scope with it
CallContextOwn(own, shared) == own

\* the context a call is issued under: the shared handle's, as it is at
\* the time of the call
CallContext(own, shared) == shared

\* what the call of a run does: tenantResource.Create creates tenant "c",
\* roleResource.Read gets role "a"
RunCall(c, under, rem) ==
    IF c = "tenant"
       THEN RemoteCreate("Tenants", under, "",
                         CreateRequest(c, CreatePlan(c, [proj |-> under.proj,
                                                         env |-> under.env,
                                                         res |-> ""],
                                                     "c", "n1", StringValue("d1"),
                                                     {})),
                         rem, FALSE, PNil)
       ELSE RemoteGet("Roles", under, "", "a", rem, FALSE)

StartRun ==
    \E o \in Runs, c \in {"tenant", "role"}, pair \in RunPairs :
        /\ ops.run[o].pc = "idle"
        /\ ops' = [ops EXCEPT !.run[o].pc = "called", !.run[o].ctrl = c,
                              !.run[o].pair = pair]
        /\ UNCHANGED <<provider, rclient, dclient, tf, ctx, remote, last>>

\* SetContext stores the project ...
WriteProject ==
    \E o \in Runs :
        /\ ops.run[o].pc = "called"
        /\ ctx' = [ctx EXCEPT !.proj = ops.run[o].pair.proj]
        /\ ops' = [ops EXCEPT !.run[o].pc = "project", !.writer.proj = o]
        /\ UNCHANGED <<provider, rclient, dclient, tf, remote, last>>

\* ... and then the environment
WriteEnvironment ==
    \E o \in Runs :
        /\ ops.run[o].pc = "project"
        /\ ctx' = [ctx EXCEPT !.env = ops.run[o].pair.env]
        /\ ops' = [ops EXCEPT !.run[o].pc = "bound", !.writer.env = o]
        /\ UNCHANGED <<provider, rclient, dclient, tf, remote, last>>

\* the call after SetContext
IssueCall ==
    \E o \in Runs :
        LET under == CallContext(ops.run[o].pair, ctx)
            rep   == RunCall(ops.run[o].ctrl, under, remote)
        IN  /\ ops.run[o].pc = "bound"
            /\ remote' = rep.remote
            /\ ops' = [ops EXCEPT !.run[o].pc = "done", !.run[o].under = under,
                                  !.run[o].saw = ops.writer,
                                  !.run[o].err = rep.err]
            /\ UNCHANGED <<provider, rclient, dclient, tf, ctx, last>>

NextRace ==
    \/ StartRun
    \/ WriteProject
    \/ WriteEnvironment
    \/ IssueCall

SpecRace == Init /\ [][NextRace]_vars

(***************************************************************************)
(* A provider process whose controllers are handed no client: provider     *)
(* data that is nil or not a *permit.Client.  The state stored by an       *)
(* earlier process is still there.                                         *)
(***************************************************************************)
\* a resource Configure that reported provider data of the wrong type
ResourceConfigureReports(providerData) ==
    IF providerData.type \notin {"nil", "*permit.Client"}
       THEN <<ErrorDiag("Unexpected Resource Configure Type", providerData.type)>>
       ELSE <<>>

\* the diagnostics of a resource Configure: its response is not used, a
\* wrong type is logged only
ResourceConfigureDiags(providerData) == <<>>

\* states an earlier process has stored
StoredStates ==
    {Absent} \cup
    {Present(c, FromResponse(c, r)) :
        <<c, r>> \in {x \in Controllers \X InitialRemote :
                        /\ x[2].api = Api(x[1])
                        /\ ~DerefPanics(x[1], "Read", x[2])}}

InitUnset ==
    /\ provider = Configured
    /\ rclient = [c \in Controllers |-> NoClient]
    /\ dclient = [d \in DataSources |-> NoDataSource]
    /\ tf \in StoredStates
    /\ ctx = NoContext
    /\ remote = InitialRemote
    /\ last = NoOp
    /\ ops = NoRuns

ResourceConfigureRun ==
    /\ Settled
    /\ \E c \in Controllers, data \in {NilData, WrongData} :
         /\ rclient' = [rclient EXCEPT ![c] = ResourceConfigure(rclient[c], data)]
         /\ last' = [NoOp EXCEPT !.op = "Configure", !.ctrl = c,
                                 !.id = <<data.type>>,
                                 !.diags = ResourceConfigureDiags(data)]
    /\ UNCHANGED <<ops, provider, dclient, tf, ctx, remote>>

DataSourceConfigureRun ==
    /\ Settled
    /\ \E d \in DataSources, data \in {provider.DataSourceData, WrongData} :
         LET configured == DataSourceConfigure(dclient[d], data)
         IN  /\ dclient' = [dclient EXCEPT ![d] = configured]
             /\ last' = [NoOp EXCEPT !.op = "DataConfigure", !.ctrl = d,
                                     !.id = <<data.type>>,
                                     !.diags = configured.diags]
    /\ UNCHANGED <<ops, provider, rclient, tf, ctx, remote>>

NextUnset ==
    \/ ResourceConfigureRun
    \/ DataSourceConfigureRun
    \/ CreateAction
    \/ ReadAction
    \/ UpdateAction
    \/ DeleteAction
    \/ AdoptAction
    \/ Respond

SpecUnset == InitUnset /\ [][NextUnset]_vars

(***************************************************************************)
(* Properties of import.                                                   *)
(***************************************************************************)
\* the number of '/'-separated segments of an ID
Segments(id) == Cardinality({i \in 1..Len(id) : id[i] = "/"}) + 1

\* the segment count each composite kind is documented to need
RequiredSegments(c) ==
    CASE c = "environment" -> 2
      [] c \in {"tenant", "role", "resource"} -> 3
      [] c = "resource_action" -> 4
      [] OTHER -> 0

CompositeImport == last.op = "Import" /\ RequiredSegments(last.ctrl) > 0

\* C1: an import of a composite kind whose ID has another number of
\* segments than the kind needs ends with an error diagnostic, has made no
\* client call and has written nothing: no state, no change of the remote
\* store or of the client context.
C1_WrongSegmentCountRejected ==
    (CompositeImport /\ Segments(last.id) # RequiredSegments(last.ctrl))
        => /\ last.outcome = "error"
           /\ HasError(last.diags)
           /\ last.calls = <<>>
           /\ tf = Absent
           /\ remote = last.before

\* a tenant import of "a/a" and a resource action import of five segments
\* have both been turned down
C1_Witness ==
    /\ CompositeImport
    /\ HasError(last.diags)
    /\ \/ last.ctrl = "tenant" /\ last.id = <<"a", "/", "a">>
       \/ last.ctrl = "resource_action" /\ Segments(last.id) = 5

\* the lookups of an import, in the order made
Lookups == SelectSeq(last.calls, LAMBDA k : k.fn = "Get")

\* the segments of the imported ID, as strings
IdKeys == [i \in 1..Segments(last.id) |-> Str(Split(last.id, "/")[i])]

\* C2: a successful import of a composite kind has looked up the project
\* by the first segment, then the environment by the second under the
\* context of that project's id, then (resource action) the resource by the
\* third under the context of project id and environment id; the state
\* holds these records' ids as project_id, environment_id and resource_id
\* and the last segment as key.
C2_ImportResolvesParents ==
    (CompositeImport /\ last.outcome = "ok")
        => \E p \in last.before :
              /\ p.api = "Projects" /\ p.key = IdKeys[1]
              /\ Lookups[1].api = "Projects" /\ Lookups[1].key = IdKeys[1]
              /\ tf.present /\ tf.ctrl = last.ctrl
              /\ tf.rec.project_id = StringValue(p.id)
              /\ tf.rec.key = StringValue(IdKeys[Len(IdKeys)])
              /\ IF ~HasEnvironmentId(last.ctrl)
                    THEN Len(Lookups) = 1 /\ tf.rec.environment_id = TNull
                    ELSE \E e \in last.before :
                        /\ e.api = "Environments" /\ e.key = IdKeys[2]
                        /\ e.proj = p.id
                        /\ Lookups[2].api = "Environments"
                        /\ Lookups[2].key = IdKeys[2]
                        /\ Lookups[2].proj = p.id /\ Lookups[2].env = ""
                        /\ tf.rec.environment_id = StringValue(e.id)
                        /\ IF ~HasResourceId(last.ctrl)
                              THEN Len(Lookups) = 2 /\ tf.rec.resource_id = TNull
                              ELSE \E r \in last.before :
                                  /\ r.api = "Resources" /\ r.key = IdKeys[3]
                                  /\ r.proj = p.id /\ r.env = e.id
                                  /\ Len(Lookups) = 3
                                  /\ Lookups[3].api = "Resources"
                                  /\ Lookups[3].key = IdKeys[3]
                                  /\ Lookups[3].proj = p.id
                                  /\ Lookups[3].env = e.id
                                  /\ tf.rec.resource_id = StringValue(r.id)

\* the resource action "a/a/a/a" has been imported with all three parents
\* resolved
C2_Witness ==
    /\ CompositeImport /\ last.outcome = "ok"
    /\ last.ctrl = "resource_action"
    /\ tf.rec.project_id = StringValue(PA)
    /\ tf.rec.environment_id = StringValue(EA)
    /\ tf.rec.resource_id = StringValue(RA)
    /\ tf.rec.key = StringValue("a")

\* C3: when a parent lookup of an import returns an error, that lookup is
\* the last client call, the one diagnostic is an error whose detail is the
\* client's message, and no attribute is written to the state.
C3_ImportStopsAtFailedLookup ==
    CompositeImport
        => \A i \in 1..Len(last.calls) :
              (last.calls[i].fn = "Get" /\ last.calls[i].err # "")
                 => /\ i = Len(last.calls)
                    /\ last.outcome = "error"
                    /\ Len(last.diags) = 1
                    /\ last.diags[1].severity = "error"
                    /\ last.diags[1].detail = last.calls[i].err
                    /\ tf = Absent

\* an import of a resource action has stopped at its third lookup, the
\* resource's
C3_Witness ==
    /\ CompositeImport /\ last.ctrl = "resource_action"
    /\ Len(Lookups) = 3
    /\ Lookups[3].err = "not found"
    /\ HasError(last.diags)

(***************************************************************************)
(* Properties of the lifecycle handlers.                                   *)
(***************************************************************************)
\* the client calls of the last handler run that reach the service
RemoteCalls == SelectSeq(last.calls, LAMBDA k : k.fn # "SetContext")

\* C4: when the client's create call returns an error, Create ends with one
\* error diagnostic whose detail is the client's message, the instance is
\* still absent, the create call was the handler's last client call and the
\* remote store is as it was.
C4_CreateErrorWritesNothing ==
    last.op = "Create"
        => \A i \in 1..Len(last.calls) :
              (last.calls[i].fn = "Create" /\ last.calls[i].err # "")
                 => /\ i = Len(last.calls)
                    /\ Len(RemoteCalls) = 1
                    /\ last.outcome = "error"
                    /\ Len(last.diags) = 1
                    /\ last.diags[1].severity = "error"
                    /\ last.diags[1].detail = last.calls[i].err
                    /\ tf = Absent
                    /\ remote = last.before

\* the create of a role whose key is taken has been refused with the
\* service's message
C4_Witness ==
    /\ last.op = "Create" /\ last.ctrl = "role"
    /\ last.calls # <<>>
    /\ last.calls[Len(last.calls)].err = "conflict"
    /\ last.diags = <<ErrorDiag("Unable to create role", "conflict")>>
    /\ ~tf.present

\* C5: when the remote call of Read, Update or Delete returns an error, the
\* handler ends with an error diagnostic and the stored state is the state
\* it was given: still present, no field changed.
C5_FailedCallKeepsState ==
    last.op \in {"Read", "Update", "Delete"}
        => \A i \in 1..Len(last.calls) :
              (last.calls[i].fn \in {"Get", "Update", "Delete"}
                    /\ last.calls[i].err # "")
                 => /\ last.outcome = "error"
                    /\ HasError(last.diags)
                    /\ tf = last.prev
                    /\ tf.present

\* an Update of a stored instance has failed at the service and the
\* instance is stored as before
C5_Witness ==
    /\ last.op = "Update"
    /\ last.calls # <<>>
    /\ last.calls[Len(last.calls)].err = "service unavailable"
    /\ HasError(last.diags)
    /\ tf.present /\ tf = last.prev

\* the attributes the caller sets in a plan
PlanFields ==
    {"key", "name", "description", "project_id", "environment_id",
     "resource_id", "permissions"}

\* C6: after a successful Create the state holds every field of the plan
\* (key, name, description, the foreign keys, a role's permissions) as the
\* plan had it, with or without a description, and id and organization_id
\* are known and non-empty.
C6_CreateReproducesPlan ==
    (last.op = "Create" /\ last.outcome = "ok")
        => /\ tf.present
           /\ \A f \in PlanFields : tf.rec[f] = last.plan[f]
           /\ tf.rec.id.tag = "value" /\ tf.rec.id.val # ""
           /\ tf.rec.organization_id.tag = "value"
           /\ tf.rec.organization_id.val # ""

\* a Create whose plan has no description has succeeded and the state
\* holds the empty string for it
C6_Witness ==
    /\ last.op = "Create" /\ last.outcome = "ok"
    /\ IsNull(last.plan.description)
    /\ tf.rec.description = StringValue("")

\* the attributes an in-place change is to leave alone
IdentityFields ==
    {"key", "project_id", "environment_id", "resource_id", "id",
     "organization_id"}

\* C7: an update request holds name and, when non-empty, description and
\* nothing else; and a successful Read that follows a successful Update
\* returns key, the foreign keys, id and organization_id as the state had
\* them before the Update.
C7_UpdateKeepsIdentity ==
    /\ last.op = "Update"
          => \A i \in 1..Len(last.calls) :
                last.calls[i].fn = "Update"
                   => /\ "name" \in DOMAIN last.calls[i].dto
                      /\ DOMAIN last.calls[i].dto \subseteq {"name", "description"}
                      /\ "description" \in DOMAIN last.calls[i].dto
                            => last.calls[i].dto.description # ""
    /\ (/\ last.op = "Read" /\ last.outcome = "ok"
        /\ Earlier.op = "Update" /\ Earlier.outcome = "ok")
          => \A f \in IdentityFields : tf.rec[f] = Earlier.prev.rec[f]

\* a Read has followed an Update of a project whose key the Update changed
C7_Witness ==
    /\ last.op = "Read" /\ last.outcome = "ok"
    /\ Earlier.op = "Update" /\ Earlier.outcome = "ok"
    /\ last.ctrl = "project_scaffold"
    /\ tf.rec.key # Earlier.prev.rec.key

\* a Read of the state a successful Delete has just removed
ReadAfterDelete ==
    /\ last.op = "Read"
    /\ Earlier.op = "Delete" /\ Earlier.outcome = "ok"
    /\ last.prev = Earlier.prev

\* C8: a Read for the last state of an entity that a successful Delete has
\* removed ends with an error diagnostic for the failed remote call; it
\* does not complete successfully.
C8_ReadAfterDeleteFails ==
    ReadAfterDelete
        => /\ last.outcome = "error"
           /\ HasError(last.diags)
           /\ \E i \in 1..Len(last.calls) :
                 last.calls[i].fn = "Get" /\ last.calls[i].err # ""

\* a Read after the Delete of a project has completed without a
\* diagnostic and stored the deleted project's state again
C8_Witness ==
    /\ ReadAfterDelete
    /\ last.outcome = "ok" /\ last.diags = <<>>
    /\ tf = last.prev

(***************************************************************************)
(* Properties of configuration.                                            *)
(***************************************************************************)
\* the provider was configured with a null api_key and no PERMIT_API_KEY
NoKeyAnywhere ==
    provider.configured /\ IsNull(provider.config) /\ provider.env = ""

\* C9: configured with a null api_key and an unset or empty PERMIT_API_KEY,
\* the provider has reported the error 'Missing API Key', built no client
\* and set neither ResourceData nor DataSourceData, and no resource
\* controller and no data source holds a client, whatever Configure calls
\* they have had.
C9_MissingKeyNoClient ==
    NoKeyAnywhere
        => /\ \E i \in 1..Len(provider.diags) :
                 /\ provider.diags[i].severity = "error"
                 /\ provider.diags[i].summary = "Missing API Key"
           /\ provider.client.nil
           /\ provider.ResourceData.type = "nil"
           /\ provider.DataSourceData.type = "nil"
           /\ \A c \in Controllers : rclient[c].nil
           /\ \A d \in DataSources : dclient[d].client.nil

\* the provider has been configured without a key and a data source has
\* since been handed provider data of the wrong type
C9_Witness ==
    /\ NoKeyAnywhere
    /\ HasError(provider.diags)
    /\ \E d \in DataSources : dclient[d].diags # <<>>

\* C10: a client, once built, holds the api_key of the configuration when
\* that is not null and the value of PERMIT_API_KEY only when it is null;
\* every client a controller or data source holds is that client.
C10_ConfigKeyWins ==
    LET want == IF IsNull(provider.config) THEN provider.env
                                           ELSE provider.config.val
    IN  /\ ~provider.client.nil
              => /\ provider.client.apiKey = want
                 /\ provider.config.tag # "unknown"
        /\ \A c \in Controllers :
              ~rclient[c].nil => rclient[c] = provider.client
        /\ \A d \in DataSources :
              ~dclient[d].client.nil => dclient[d].client = provider.client

\* with api_key "k1" and PERMIT_API_KEY "k2" a controller holds a client
\* built with "k1"
C10_Witness ==
    /\ provider.config = StringValue("k1") /\ provider.env = "k2"
    /\ \E c \in Controllers : ~rclient[c].nil /\ rclient[c].apiKey = "k1"

\* C11: configured with an api_key that is unknown, the provider has
\* reported the error 'Unknown API Key' and built no client, set neither
\* ResourceData nor DataSourceData, whatever PERMIT_API_KEY holds.
C11_UnknownKeyNoClient ==
    (provider.configured /\ IsUnknown(provider.config))
        => /\ \E i \in 1..Len(provider.diags) :
                 /\ provider.diags[i].severity = "error"
                 /\ provider.diags[i].summary = "Unknown API Key"
           /\ provider.client.nil
           /\ provider.ResourceData.type = "nil"
           /\ provider.DataSourceData.type = "nil"
           /\ \A c \in Controllers : rclient[c].nil

\* the provider has been configured with an unknown api_key while
\* PERMIT_API_KEY held "k1", and a data source has had its Configure since
C11_Witness ==
    /\ provider.configured /\ IsUnknown(provider.config)
    /\ provider.env = "k1"
    /\ provider.diags # <<>>
    /\ \E d \in DataSources : dclient[d].diags # <<>>

(***************************************************************************)
(* Properties of Read and Update.                                          *)
(***************************************************************************)
\* the remote records the state st of kind c names: same key, under the
\* foreign keys the state holds
Named(c, st, rem) ==
    {r \in rem :
        /\ r.api = Api(c)
        /\ r.key = ValueString(st.key)
        /\ HasProjectId(c) => r.proj = ValueString(st.project_id)
        /\ HasEnvironmentId(c) => r.env = ValueString(st.environment_id)
        /\ HasResourceId(c) => r.res = ValueString(st.resource_id)}

\* every state field of kind c equals the field of the remote record r
Mirrors(c, st, r) ==
    /\ st.id = StringValue(r.id)
    /\ st.organization_id = StringValue(r.org)
    /\ HasProjectId(c) => st.project_id = StringValue(r.proj)
    /\ HasEnvironmentId(c) => st.environment_id = StringValue(r.env)
    /\ HasResourceId(c) => st.resource_id = StringValue(r.res)
    /\ st.key = StringValue(r.key)
    /\ st.name = StringValue(r.name)
    /\ IF r.desc.nil THEN st.description \in {TNull, StringValue("")}
                     ELSE st.description = StringValue(r.desc.val)
    /\ HasPermissions(c) => st.permissions = SetValueFrom(r.perms)

\* C12: a successful Read has fetched the entity by key and the state it
\* leaves equals, field by field (id, organization_id, foreign keys, key,
\* name, description, a role's permissions), the remote record the prior
\* state names.
C12_ReadOverwritesState ==
    (last.op = "Read" /\ last.outcome = "ok")
        => /\ \E i \in 1..Len(last.calls) :
                 /\ last.calls[i].fn = "Get"
                 /\ last.calls[i].key = ValueString(last.prev.rec.key)
           /\ tf.present
           /\ \E r \in Named(last.ctrl, last.prev.rec, remote) :
                 Mirrors(last.ctrl, tf.rec, r)

\* a Read of a role has succeeded and the state holds no permissions while
\* the remote role has some
C12_Witness ==
    /\ last.op = "Read" /\ last.outcome = "ok" /\ last.ctrl = "role"
    /\ tf.rec.permissions = SetNull
    /\ \E r \in Named("role", last.prev.rec, remote) : r.perms # {}

\* C13: a successful Update has made the client's update call and the
\* state it leaves equals, field by field (a role's permissions included),
\* the record the service returned for it.
C13_UpdateReplacesState ==
    (last.op = "Update" /\ last.outcome = "ok")
        => /\ \E i \in 1..Len(last.calls) :
                 /\ last.calls[i].fn = "Update"
                 /\ last.calls[i].key = ValueString(last.plan.key)
           /\ tf.present
           /\ \E r \in Named(last.ctrl, last.plan, remote) :
                 Mirrors(last.ctrl, tf.rec, r)

\* an Update of a project has succeeded without a client call, the state
\* holding a name the service does not
C13_Witness ==
    /\ last.op = "Update" /\ last.outcome = "ok"
    /\ last.ctrl = "project_scaffold"
    /\ last.calls = <<>>
    /\ tf.rec.name = StringValue("n2")
    /\ \A r \in remote : r.name # "n2"

\* C14: a Read whose Get the service answers with not-found ends with an
\* error diagnostic and the state it was given; and no Read at all leaves
\* an instance absent that was present before it.
C14_ReadKeepsMissing ==
    last.op = "Read"
        => /\ \A i \in 1..Len(last.calls) :
                 (last.calls[i].fn = "Get" /\ last.calls[i].err = "not found")
                    => /\ last.outcome = "error"
                       /\ HasError(last.diags)
                       /\ tf = last.prev
           /\ last.prev.present => tf.present

\* a Read of a tenant that the service no longer holds has ended with an
\* error and the tenant is still stored
C14_Witness ==
    /\ last.op = "Read" /\ last.ctrl = "tenant"
    /\ last.calls # <<>>
    /\ last.calls[Len(last.calls)].err = "not found"
    /\ Named("tenant", last.prev.rec, remote) = {}
    /\ last.diags = <<ErrorDiag("Unable to read tenant", "not found")>>
    /\ tf.present

(***************************************************************************)
(* Properties of the client calls a handler makes.                         *)
(***************************************************************************)
\* the client sub-APIs whose calls are scoped by the client context
ScopedApis == {"Environments", "Tenants", "Resources", "ResourceActions", "Roles"}

\* the project id the pending handler run works under: the plan's, the
\* state's, the data source configuration's, or the id of the project an
\* import has looked up
OwnProjectId ==
    CASE last.op \in {"Create", "Update", "DataRead"} ->
            ValueString(last.plan.project_id)
      [] last.op \in {"Read", "Delete"} -> ValueString(last.prev.rec.project_id)
      [] OTHER ->
            LET ps == {p \in last.before :
                          p.api = "Projects" /\ p.key = IdKeys[1]}
            IN  IF ps = {} THEN "" ELSE (CHOOSE p \in ps : TRUE).id

\* the environment id the pending handler run works under
OwnEnvironmentId ==
    CASE last.op \in {"Create", "Update"} -> ValueString(last.plan.environment_id)
      [] last.op \in {"Read", "Delete"} ->
            ValueString(last.prev.rec.environment_id)
      [] last.op = "DataRead" -> ""
      [] OTHER ->
            LET es == {e \in last.before :
                          /\ e.api = "Environments" /\ e.key = IdKeys[2]
                          /\ e.proj = OwnProjectId}
            IN  IF es = {} THEN "" ELSE (CHOOSE e \in es : TRUE).id

\* C15: in every handler run, each call of a scoped sub-API (Environments,
\* Tenants, Resources, ResourceActions, Roles) comes directly after a
\* SetContext call whose arguments are the run's own project id and
\* environment id (the empty string for a call of Environments), and is
\* issued under exactly that context.
C15_SetContextPrecedesScopedCall ==
    \A i \in 1..Len(last.calls) :
        (last.calls[i].fn # "SetContext" /\ last.calls[i].api \in ScopedApis)
            => LET env == IF last.calls[i].api = "Environments"
                             THEN "" ELSE OwnEnvironmentId
               IN  /\ i > 1
                   /\ last.calls[i - 1].fn = "SetContext"
                   /\ last.calls[i - 1].proj = OwnProjectId
                   /\ last.calls[i - 1].env = env
                   /\ last.calls[i].proj = OwnProjectId
                   /\ last.calls[i].env = env

\* the environment data source has been read under project "p-b", its Get
\* coming right after SetContext("p-b", "")
C15_Witness ==
    /\ last.op = "DataRead" /\ last.ctrl = "environment"
    /\ last.outcome = "ok"
    /\ Len(last.calls) = 2
    /\ last.calls[1].fn = "SetContext" /\ last.calls[1].proj = PB
    /\ last.calls[2].fn = "Get" /\ last.calls[2].api = "Environments"

(***************************************************************************)
(* Properties of runs in flight at once.                                   *)
(***************************************************************************)
\* C16: SetContext and the call after it are not one step: a call is
\* issued under whatever the shared handle holds at that moment, each field
\* as the run that wrote it last bound it, be that the calling run or the
\* other one.
C16_CallRunsUnderSharedContext ==
    \A o \in Runs :
        ops.run[o].pc = "done"
            => /\ ops.run[o].saw.proj \in Runs
               /\ ops.run[o].saw.env \in Runs
               /\ ops.run[o].under.proj = ops.run[ops.run[o].saw.proj].pair.proj
               /\ ops.run[o].under.env = ops.run[ops.run[o].saw.env].pair.env

\* two runs with different scopes: the first has bound "p-a" / "e-a@p-a"
\* and its create of a tenant was issued under the pair the second had
\* bound in between, so the tenant now exists in the second run's
\* environment
C16_Witness ==
    \E o, p \in Runs :
        /\ o # p
        /\ ops.run[o].pc = "done" /\ ops.run[o].ctrl = "tenant"
        /\ ops.run[o].pair = SetContext(PA, EA)
        /\ ops.run[p].pair = SetContext(PB, EB)
        /\ ops.run[o].under = ops.run[p].pair
        /\ ops.run[o].err = ""
        /\ \E r \in remote : r.api = "Tenants" /\ r.key = "c" /\ r.env = EB

(***************************************************************************)
(* Properties of the description field.                                    *)
(***************************************************************************)
\* C17: a state written by a successful Create, Read or Update holds a
\* null description when the remote record it names has no description,
\* and the empty string only when the remote description is the empty
\* string.
C17_AbsentDescriptionIsNull ==
    (last.op \in {"Create", "Read", "Update"} /\ last.outcome = "ok"
        /\ tf.present)
        => \A r \in Named(last.ctrl, tf.rec, remote) :
              /\ r.desc.nil => tf.rec.description = TNull
              /\ tf.rec.description = StringValue("")
                    => (~r.desc.nil /\ r.desc.val = "")

\* a Read of a tenant whose remote record has no description has
\* succeeded and the state holds the empty string
C17_Witness ==
    /\ last.op = "Read" /\ last.ctrl = "tenant" /\ last.outcome = "ok"
    /\ tf.present /\ tf.rec.description = StringValue("")
    /\ \E r \in Named("tenant", tf.rec, remote) : r.desc.nil

\* the records the last client call of the handler answered with
Answered ==
    LET k == last.calls[Len(last.calls)]
    IN  IF last.calls = <<>> \/ k.err # "" \/ k.fn \notin {"Create", "Get", "Update"}
           THEN {}
           ELSE Find(k.api, [proj |-> k.proj, env |-> k.env], k.res, k.key,
                     remote)

\* C18: when the client call of Create, Read or Update of a controller, or
\* of a data source's Read, succeeds with a response that has no
\* description, the handler ends with an error diagnostic and writes no
\* state: the stored state is the one it was given and a data source
\* yields nothing.
C18_MissingDescriptionIsMappingError ==
    (last.op \in {"Create", "Read", "Update", "DataRead"}
        /\ \E r \in Answered : r.desc.nil)
        => /\ last.outcome = "error"
           /\ HasError(last.diags)
           /\ tf = last.prev
           /\ last.data = Absent

\* the create of a role was answered without a description: the handler
\* has stopped in a panic with no diagnostic, the role existing remotely
\* and not in the state
C18_Witness ==
    /\ last.op = "Create" /\ last.ctrl = "role"
    /\ \E r \in Answered : r.desc.nil
    /\ last.outcome = "panic" /\ last.diags = <<>>
    /\ ~tf.present

(***************************************************************************)
(* Properties of replacement.                                              *)
(***************************************************************************)
\* key and foreign keys
ReplaceFields == {"key", "project_id", "environment_id", "resource_id"}

\* C19: Update of every kind, project included, is only ever invoked with
\* a plan whose key, project_id, environment_id and resource_id are those
\* of the state, and the state it leaves holds them unchanged.
C19_UpdateNeverChangesKeys ==
    last.op = "Update"
        => \A f \in ReplaceFields :
              /\ last.plan[f] = last.prev.rec[f]
              /\ tf.present => tf.rec[f] = last.prev.rec[f]

\* Update of a project has been invoked with a key other than the state's
\* and the stored key is now the planned one
C19_Witness ==
    /\ last.op = "Update" /\ last.ctrl = "project_scaffold"
    /\ last.outcome = "ok"
    /\ last.plan.key # last.prev.rec.key
    /\ tf.present /\ tf.rec.key = last.plan.key

(***************************************************************************)
(* Properties of the calls of one handler run.                             *)
(***************************************************************************)
\* the client's mutating calls
Mutating == {"Create", "Update", "Delete"}

\* C20: no handler retries.  One run of Create, Update or Delete makes at
\* most one mutating client call, the one of its own name, and in every
\* handler a client call that returned an error is the last client call
\* of the run.
C20_NoRetries ==
    /\ last.op \in Mutating
          => /\ Cardinality({i \in 1..Len(RemoteCalls) :
                                RemoteCalls[i].fn \in Mutating}) <= 1
             /\ \A i \in 1..Len(RemoteCalls) :
                   RemoteCalls[i].fn \in Mutating => RemoteCalls[i].fn = last.op
    /\ \A i \in 1..Len(RemoteCalls) :
          RemoteCalls[i].err # "" => i = Len(RemoteCalls)

\* the update of a resource action has failed at the service: the run made
\* that one call and reported its error
C20_Witness ==
    /\ last.op = "Update" /\ last.ctrl = "resource_action"
    /\ Len(RemoteCalls) = 1
    /\ RemoteCalls[1].fn = "Update"
    /\ RemoteCalls[1].err = "service unavailable"
    /\ last.outcome = "error"

(***************************************************************************)
(* Properties of Delete.                                                   *)
(***************************************************************************)
\* C21: a Delete binds the context from the foreign keys of the state and
\* makes exactly one client call, the delete of its own kind addressed by
\* the key of the state (and the resource_id for a resource action), so
\* none for a dependent entity; when the call succeeds the state is
\* removed, and when the service refuses it the handler ends with an error
\* diagnostic carrying the service's message and the state stays as it was.
C21_DeleteIsOneCallByKey ==
    (last.op = "Delete" /\ last.outcome # "panic")
        => LET c  == last.ctrl
               st == last.prev.rec
               k  == RemoteCalls[1]
           IN  /\ Len(RemoteCalls) = 1
               /\ k.fn = "Delete" /\ k.api = Api(c)
               /\ k.key = ValueString(st.key)
               /\ HasResourceId(c) => k.res = ValueString(st.resource_id)
               /\ HasProjectId(c)
                     => /\ last.calls[1] =
                             CallSetContext(
                                SetContext(ValueString(st.project_id),
                                           IF HasEnvironmentId(c)
                                              THEN ValueString(st.environment_id)
                                              ELSE ""))
                        /\ k.proj = ValueString(st.project_id)
               /\ HasEnvironmentId(c) => k.env = ValueString(st.environment_id)
               /\ k.err = "" => (last.outcome = "ok" /\ tf = Absent)
               /\ k.err # ""
                     => /\ last.outcome = "error"
                        /\ Len(last.diags) = 1
                        /\ last.diags[1].severity = "error"
                        /\ last.diags[1].detail = k.err
                        /\ tf = last.prev /\ tf.present

\* a resource action has been deleted by its key under its resource and
\* is stored no more
C21_Witness ==
    /\ last.op = "Delete" /\ last.ctrl = "resource_action"
    /\ last.outcome = "ok"
    /\ RemoteCalls[1].key = ValueString(last.prev.rec.key)
    /\ RemoteCalls[1].res = RA
    /\ last.prev.present /\ ~tf.present

(***************************************************************************)
(* Properties of Read after import.                                        *)
(***************************************************************************)
\* the remote records an import ID names for the kind imported: for the
\* project kinds the project whose key is the ID, for the others the
\* entity with the leaf key under the parents the import resolved
ImportedEntity(c, id, st, rem) ==
    IF c \in {"project", "project_scaffold"}
       THEN {r \in rem : r.api = "Projects" /\ r.key = Str(id)}
       ELSE Named(c, st, rem)

\* a Read directly after a successful import of an entity the service
\* holds, the service being available
ReadAfterImport ==
    /\ last.op = "Read"
    /\ Earlier.op = "Import" /\ Earlier.outcome = "ok"
    /\ ImportedEntity(last.ctrl, Earlier.id, last.prev.rec, remote) # {}
    /\ \A i \in 1..Len(last.calls) : last.calls[i].err # "service unavailable"

\* C22: the Read directly after a successful import of an existing entity
\* gets that entity by the foreign keys and key the import wrote and
\* leaves a state equal to the remote record in every field of the kind.
C22_ReadCompletesImport ==
    ReadAfterImport
        => /\ last.outcome = "ok"
           /\ Len(RemoteCalls) = 1 /\ RemoteCalls[1].fn = "Get"
           /\ tf.present
           /\ \E r \in ImportedEntity(last.ctrl, Earlier.id, last.prev.rec,
                                      remote) :
                 Mirrors(last.ctrl, tf.rec, r)

\* the role "a/a/a" was imported and read: the state has no permissions,
\* the remote role has "x"
C22_Witness ==
    /\ ReadAfterImport /\ last.ctrl = "role" /\ last.outcome = "ok"
    /\ tf.rec.permissions = SetNull
    /\ \E r \in Named("role", last.prev.rec, remote) : r.perms = {"x"}

(***************************************************************************)
(* Properties of the client handle.                                        *)
(***************************************************************************)
\* C23: a Configure of the provider that reported no error has built one
\* client and set it both as ResourceData and as DataSourceData; whatever
\* client a controller or a data source holds after its own Configure is
\* that client.
C23_OneClientForAll ==
    (provider.configured /\ ~HasError(provider.diags))
        => /\ ~provider.client.nil
           /\ provider.ResourceData = ClientData(provider.client)
           /\ provider.DataSourceData = ClientData(provider.client)
           /\ provider.ResourceData.client = provider.DataSourceData.client
           /\ \A c \in Controllers :
                 rclient[c] \in {NoClient, provider.client}
           /\ \A d \in DataSources :
                 dclient[d].client \in {NoClient, provider.client}

\* the provider is configured, and the tenant controller and the project
\* data source both hold its client
C23_Witness ==
    /\ provider.configured /\ ~HasError(provider.diags)
    /\ ~rclient["tenant"].nil /\ rclient["tenant"] = provider.client
    /\ ~dclient["project"].client.nil
    /\ dclient["project"].client = rclient["tenant"]

(***************************************************************************)
(* Properties of the data sources.                                         *)
(***************************************************************************)
\* C24: a Read of the project or the environment data source makes only
\* Get calls and changes nothing at the service; when the Get succeeds the
\* state it sets is the full record of the response, and when the Get
\* fails it adds an error diagnostic and sets no state.
C24_DataSourceIsLookup ==
    (last.op = "DataRead" /\ last.calls # <<>>)
        => /\ \A i \in 1..Len(RemoteCalls) : RemoteCalls[i].fn = "Get"
           /\ Len(RemoteCalls) = 1
           /\ remote = last.before
           /\ RemoteCalls[1].err = ""
                 => /\ last.outcome = "ok"
                    /\ last.data.present
                    /\ \E r \in Answered : Mirrors(last.ctrl, last.data.rec, r)
           /\ RemoteCalls[1].err # ""
                 => /\ last.outcome = "error"
                    /\ HasError(last.diags)
                    /\ last.data = Absent

\* the project data source has looked up project "b", which has no
\* description: the Get succeeded and no state was set
C24_Witness ==
    /\ last.op = "DataRead" /\ last.ctrl = "project"
    /\ RemoteCalls[1].fn = "Get" /\ RemoteCalls[1].key = "b"
    /\ RemoteCalls[1].err = ""
    /\ last.outcome = "panic"
    /\ last.data = Absent

(***************************************************************************)
(* Properties of an empty api_key.                                         *)
(***************************************************************************)
\* C25: configured with an api_key that is the empty string, the provider
\* has reported the error 'Missing API Key' and built no client, whatever
\* PERMIT_API_KEY holds.
C25_EmptyKeyOverridesEnv ==
    (provider.configured /\ provider.config = StringValue(""))
        => /\ \E i \in 1..Len(provider.diags) :
                 /\ provider.diags[i].severity = "error"
                 /\ provider.diags[i].summary = "Missing API Key"
           /\ provider.client.nil
           /\ provider.ResourceData = NilData
           /\ provider.DataSourceData = NilData

\* the provider has been configured with api_key "" while PERMIT_API_KEY
\* held "k1", and has no client
C25_Witness ==
    /\ provider.configured
    /\ provider.config = StringValue("") /\ provider.env = "k1"
    /\ HasError(provider.diags) /\ provider.client.nil

(***************************************************************************)
(* Properties of the description in Update.                                *)
(***************************************************************************)
\* the records a client call k addresses among rem
Addressed(k, rem) ==
    Find(k.api, [proj |-> k.proj, env |-> k.env], k.res, k.key, rem)

\* C26: an Update whose plan has a null or empty description sends an
\* update request without a description; when the entity had a non-empty
\* description and the Update succeeds, the remote description is the old
\* one and so is the description of the state written from the response,
\* not the planned one.
C26_UpdateCannotClearDescription ==
    (last.op = "Update" /\ ValueString(last.plan.description) = "")
        => \A i \in 1..Len(last.calls) :
              last.calls[i].fn = "Update"
                 => /\ "description" \notin DOMAIN last.calls[i].dto
                    /\ \A old \in Addressed(last.calls[i], last.before) :
                          (last.outcome = "ok" /\ ~old.desc.nil
                              /\ old.desc.val # "")
                             => /\ \A r \in Addressed(last.calls[i], remote) :
                                      r.desc = old.desc
                                /\ tf.present
                                /\ tf.rec.description = StringValue(old.desc.val)
                                /\ tf.rec.description # last.plan.description

\* a resource created with description "d1" has been updated with a plan
\* whose description is empty, and both the service and the state still
\* hold "d1"
C26_Witness ==
    /\ last.op = "Update" /\ last.ctrl = "resource" /\ last.outcome = "ok"
    /\ ValueString(last.plan.description) = ""
    /\ last.prev.rec.description = StringValue("d1")
    /\ tf.rec.description = StringValue("d1")
    /\ \E r \in Named("resource", tf.rec, remote) : r.desc = Ptr("d1")

(***************************************************************************)
(* Properties of a role's permissions.                                     *)
(***************************************************************************)
\* the permissions of the remote roles, by server id
RolePermissions(rem) ==
    {<<r.id, r.perms>> : r \in {x \in rem : x.api = "Roles"}}

\* what an Update or a Read of a role leaves: no permissions in the
\* request, none copied into the state
RoleKeepsPermissions ==
    /\ (last.op = "Update" /\ last.ctrl = "role")
          => \A i \in 1..Len(last.calls) :
                "permissions" \notin DOMAIN last.calls[i].dto
    /\ (last.op \in {"Update", "Read"} /\ last.ctrl = "role"
           /\ last.outcome = "ok")
          => tf.rec.permissions = SetNull

\* C27: an Update of a role sends no permissions and neither Update nor
\* Read of a role copies the response's permissions into the state; no
\* step that leaves a remote role in place changes its permissions, so
\* they stay the ones its Create sent, whatever the update plans held.
C27_RoleUpdateNeverSendsPermissions ==
    /\ []RoleKeepsPermissions
    /\ [][\A old \in RolePermissions(remote), new \in RolePermissions(remote') :
             old[1] = new[1] => old[2] = new[2]]_vars

\* a role created with permissions "x" has been updated with a plan
\* holding "x" and "y": the service still has "x" alone and the state has
\* none
C27_Witness ==
    /\ last.op = "Update" /\ last.ctrl = "role" /\ last.outcome = "ok"
    /\ last.plan.permissions = SetValueFrom({"x", "y"})
    /\ last.prev.rec.permissions = SetValueFrom({"x"})
    /\ \E r \in Named("role", tf.rec, remote) : r.perms = {"x"}
    /\ tf.rec.permissions = SetNull

(***************************************************************************)
(* Properties of empty segments in an import ID.                           *)
(***************************************************************************)
\* an import of a composite kind whose ID has the required number of
\* segments, one of them at least empty
EmptySegmentImport ==
    /\ CompositeImport
    /\ Segments(last.id) = RequiredSegments(last.ctrl)
    /\ \E i \in 1..Segments(last.id) : IdKeys[i] = ""

\* C28: an import ID with the required number of segments, some of them
\* empty, is not turned down by the format check: the import makes its
\* lookups, and unless a lookup by a non-empty key has failed before, it
\* has looked up a parent by the empty key or written the empty key into
\* the state.
C28_EmptySegmentsPassFormatCheck ==
    EmptySegmentImport
        => /\ \A i \in 1..Len(last.diags) :
                 last.diags[i].summary # "Error importing " \o Noun(last.ctrl)
           /\ Lookups # <<>>
           /\ (\A i \in 1..Len(Lookups) :
                  Lookups[i].err # "" => Lookups[i].key = "")
                 => \/ \E i \in 1..Len(Lookups) : Lookups[i].key = ""
                    \/ tf.present /\ tf.rec.key = StringValue("")

\* the tenant import of "a/a/" has succeeded and the state holds the empty
\* key
C28_Witness ==
    /\ EmptySegmentImport /\ last.ctrl = "tenant"
    /\ last.id = <<"a", "/", "a", "/">>
    /\ last.outcome = "ok"
    /\ tf.present /\ tf.rec.key = StringValue("")

(***************************************************************************)
(* Properties of a controller without a client.                            *)
(***************************************************************************)
\* the last handler run is one that uses the client
NeedsClient ==
    \/ last.op \in {"Create", "Delete"}
    \/ last.op \in {"Read", "Update"} /\ last.ctrl # "project_scaffold"
    \/ CompositeImport /\ Segments(last.id) = RequiredSegments(last.ctrl)

\* C29: a resource controller's Configure handed provider data that is
\* not the client adds no diagnostic and leaves the client unset, where a
\* data source's Configure adds an error; a handler of such a controller
\* that uses the client then runs without one, no error having been
\* reported, and stops in a nil-pointer panic.
C29_WrongDataLeavesClientUnset ==
    /\ (last.op = "Configure" /\ last.id = <<WrongData.type>>)
          => /\ last.diags = <<>>
             /\ rclient[last.ctrl].nil
    /\ (last.op = "DataConfigure" /\ last.id = <<WrongData.type>>)
          => HasError(last.diags)
    /\ NeedsClient
          => /\ rclient[last.ctrl].nil
             /\ last.outcome = "panic"
             /\ last.diags = <<>>

\* the tenant controller was handed a string as provider data, reported
\* nothing, and its Read has run without a client
C29_Witness ==
    /\ Earlier.op = "Configure" /\ Earlier.ctrl = "tenant"
    /\ Earlier.id = <<"string">> /\ Earlier.diags = <<>>
    /\ last.op = "Read" /\ last.ctrl = "tenant"
    /\ rclient["tenant"].nil
    /\ last.outcome = "panic"

(***************************************************************************)
(* Properties of project import.                                           *)
(***************************************************************************)
\* the two project controllers
ProjectKinds == {"project", "project_scaffold"}

\* C30: the import of a project writes the import ID, unparsed, as the key
\* of the state, and the Read that follows gets the project by that key.
C30_ProjectImportWritesKey ==
    /\ (last.op = "Import" /\ last.ctrl \in ProjectKinds)
          => /\ last.outcome = "ok"
             /\ tf.present
             /\ tf.rec.key = StringValue(Str(last.id))
    /\ (/\ last.op = "Read" /\ last.ctrl \in ProjectKinds
        /\ Earlier.op = "Import" /\ Earlier.outcome = "ok")
          => /\ Len(RemoteCalls) = 1
             /\ RemoteCalls[1].fn = "Get" /\ RemoteCalls[1].api = "Projects"
             /\ RemoteCalls[1].key = Str(Earlier.id)

\* a project has been imported with ID "a": the state holds "a" as id and
\* no key
C30_Witness ==
    /\ last.op = "Import" /\ last.ctrl = "project_scaffold"
    /\ last.id = <<"a">> /\ last.outcome = "ok"
    /\ tf.rec.id = StringValue("a")
    /\ tf.rec.key = TNull

====
